---------------------------- MODULE Spec2Model ----------------------------
(***************************************************************************)
(* Availability policies of oscar.apps.partner.availability.               *)
(*                                                                         *)
(* A policy object answers whether a product may be bought.  The state is  *)
(* one policy instance, the stock record and the product it refers to, and *)
(* what the caller got back from its last two queries.                     *)
(***************************************************************************)
EXTENDS Integers, Sequences, FiniteSets, TLC

VARIABLES
    policy,         \* the policy instance: its class and its instance fields
    stockrecord,    \* the catalogue's stock record object
    product,        \* the catalogue's product object
    stock_changed,  \* the stock level was changed since the policy was built
    prev,           \* the query before the last one (since the last change)
    cur             \* the last query and what it returned

vars == <<policy, stockrecord, product, stock_changed, prev, cur>>

world == <<policy, stockrecord, product>>

---------------------------------------------------------------------------
(* Bounds of the model.                                                    *)

MaxStock == 5       \* highest of the small net stock levels
MaxDeficit == 2     \* lowest net stock level is -MaxDeficit
MaxQty == 6         \* highest of the small quantities asked for
BulkStock == 12     \* one large stock level, of more than one digit

Levels == ((0 - MaxDeficit)..MaxStock) \cup {BulkStock}
Quantities == (0..MaxQty) \cup {BulkStock, BulkStock + 1}

---------------------------------------------------------------------------
(* Python values.  Every value is a record of the same shape, so that any  *)
(* two of them can be compared.                                            *)

PyNone == [t |-> "NoneType", b |-> FALSE, s |-> "", n |-> 0]
PyBool(x) == [t |-> "bool", b |-> x, s |-> "", n |-> 0]
PyStr(x) == [t |-> "str", b |-> FALSE, s |-> x, n |-> 0]
PyInt(x) == [t |-> "int", b |-> FALSE, s |-> "", n |-> x]
\* a pair (bool, reason)
PyPair(ok, reason) == [t |-> "tuple", b |-> ok, s |-> reason, n |-> 0]
\* the call did not return: it raised exc
Raise(exc) == [t |-> "raise", b |-> FALSE, s |-> exc, n |-> 0]

AttributeError == Raise("AttributeError")

Raised(v) == v.t = "raise"

\* v[0] of a pair; an exception propagates
Item0(v) == IF Raised(v) THEN v ELSE PyBool(v.b)

\* "%d" % n
RECURSIVE Digits(_)
Digits(n) ==
    IF n < 10 THEN SubSeq("0123456789", n + 1, n + 1)
    ELSE Digits(n \div 10) \o SubSeq("0123456789", (n % 10) + 1, (n % 10) + 1)

FormatD(n) == IF n < 0 THEN "-" \o Digits(0 - n) ELSE Digits(n)

---------------------------------------------------------------------------
(* The collaborators.  A stock record has a net stock level and answers    *)
(* the delegate's questions itself, through its partner wrapper.           *)

Wrappers == {"stock", "backorder", "closed", "members"}

Users == {"None", "alice"}

StockRecords == [net_stock_level : Levels, wrapper : Wrappers]

Products == [track_stock : BOOLEAN]

SR_is_available_to_buy(sr) ==
    CASE sr.wrapper = "stock" -> PyBool(sr.net_stock_level > 0)
      [] sr.wrapper = "backorder" -> PyBool(TRUE)
      [] sr.wrapper = "closed" -> PyBool(FALSE)
      [] sr.wrapper = "members" -> PyBool(TRUE)

SR_is_purchase_permitted(sr, user, quantity, prod) ==
    CASE sr.wrapper = "stock" ->
            IF quantity > sr.net_stock_level
            THEN PyPair(FALSE, "Insufficient stock")
            ELSE PyPair(TRUE, "")
      [] sr.wrapper = "backorder" -> PyPair(TRUE, "")
      [] sr.wrapper = "closed" -> PyPair(FALSE, "Unavailable")
      [] sr.wrapper = "members" ->
            IF user = "None"
            THEN PyPair(FALSE, "Sign in to buy")
            ELSE PyPair(TRUE, "")

SR_availability_code(sr) ==
    CASE sr.wrapper = "stock" ->
            PyStr(IF sr.net_stock_level > 0 THEN "instock" ELSE "outofstock")
      [] sr.wrapper = "backorder" -> PyStr("backorder")
      [] sr.wrapper = "closed" -> PyStr("unavailable")
      [] sr.wrapper = "members" -> PyStr("instock")

SR_availability(sr) ==
    CASE sr.wrapper = "stock" ->
            PyStr(IF sr.net_stock_level > 0 THEN "In stock" ELSE "Out of stock")
      [] sr.wrapper = "backorder" -> PyStr("Available to order")
      [] sr.wrapper = "closed" -> PyStr("Unavailable")
      [] sr.wrapper = "members" -> PyStr("In stock")

SR_lead_time(sr) ==
    IF sr.wrapper = "backorder" THEN PyInt(7) ELSE PyNone

SR_dispatch_date(sr) ==
    IF sr.wrapper = "backorder" THEN PyStr("2013-06-01") ELSE PyNone

---------------------------------------------------------------------------
(* The policy classes.  self.stockrecord is a reference: "None" or the     *)
(* stock record.  Base, Unavailable and Available have no instance fields. *)

PlainClasses == {"Base", "Unavailable", "Available"}

Classes == PlainClasses \cup {"StockRequired", "DelegateToStockRecord"}

Refs == {"None", "stockrecord"}

Plain(cls) == [cls |-> cls, stockrecord |-> "None", user |-> "None"]

\* StockRequired.__init__(self, stockrecord=None)
StockRequired_init(ref) ==
    [cls |-> "StockRequired", stockrecord |-> ref, user |-> "None"]

\* DelegateToStockRecord.__init__(self, product, stockrecord=None, user=None)
DelegateToStockRecord_init(ref, user) ==
    [cls |-> "DelegateToStockRecord", stockrecord |-> ref, user |-> user]

Policies ==
    {Plain(c) : c \in PlainClasses}
    \cup {StockRequired_init(r) : r \in Refs}
    \cup {DelegateToStockRecord_init(r, u) : r \in Refs, u \in Users}

---------------------------------------------------------------------------
(* Base: everything is unavailable.                                        *)

Base_code(self) == PyStr("")

Base_message(self) == PyStr("")

Base_lead_time(self) == PyNone

Base_dispatch_date(self) == PyNone

\* faulty variant: the default permits
Base_is_purchase_permitted_Permitting(self, quantity) == PyPair(TRUE, "")

Base_is_purchase_permitted(self, quantity) == PyPair(FALSE, "Unavailable")

Unavailable_code(self) == PyStr("unavailable")

Unavailable_message(self) == PyStr("Unavailable")

Available_code(self) == PyStr("available")

Available_message(self) == PyStr("Available")

\* faulty variant: the override is missing
Available_is_purchase_permitted_NotOverridden(self, quantity) ==
    Base_is_purchase_permitted(self, quantity)

Available_is_purchase_permitted(self, quantity) == PyPair(TRUE, "")

---------------------------------------------------------------------------
(* StockRequired: the stock record's net stock level is respected.         *)

CODE_IN_STOCK == "instock"

CODE_OUT_OF_STOCK == "outofstock"

\* self.stockrecord.net_stock_level, given that self.stockrecord is not None
net_stock_level(self) == stockrecord.net_stock_level

\* faulty variant: >= for >
StockRequired_is_purchase_permitted_OffByOne(self, quantity) ==
    IF self.stockrecord = "None" THEN AttributeError
    ELSE LET num_in_stock == net_stock_level(self) IN
         IF num_in_stock = 0 THEN PyPair(FALSE, "No stock available")
         ELSE IF quantity >= num_in_stock
         THEN PyPair(FALSE, "A maximum of " \o FormatD(num_in_stock)
                                \o " can be bought")
         ELSE PyPair(TRUE, "")

\* faulty variant: < for >
StockRequired_is_purchase_permitted_Reversed(self, quantity) ==
    IF self.stockrecord = "None" THEN AttributeError
    ELSE LET num_in_stock == net_stock_level(self) IN
         IF num_in_stock = 0 THEN PyPair(FALSE, "No stock available")
         ELSE IF quantity < num_in_stock
         THEN PyPair(FALSE, "A maximum of " \o FormatD(num_in_stock)
                                \o " can be bought")
         ELSE PyPair(TRUE, "")

StockRequired_is_purchase_permitted(self, quantity) ==
    IF self.stockrecord = "None" THEN AttributeError
    ELSE LET num_in_stock == net_stock_level(self) IN
         IF num_in_stock = 0 THEN PyPair(FALSE, "No stock available")
         ELSE IF quantity > num_in_stock
         THEN PyPair(FALSE, "A maximum of " \o FormatD(num_in_stock)
                                \o " can be bought")
         ELSE PyPair(TRUE, "")

\* faulty variant: >= 0 for > 0
StockRequired_code_NonNegative(self) ==
    IF self.stockrecord = "None" THEN AttributeError
    ELSE IF net_stock_level(self) >= 0 THEN PyStr(CODE_IN_STOCK)
    ELSE PyStr(CODE_OUT_OF_STOCK)

\* faulty variant: the level is tested for truth, not for > 0
StockRequired_code_NonZero(self) ==
    IF self.stockrecord = "None" THEN AttributeError
    ELSE IF net_stock_level(self) # 0 THEN PyStr(CODE_IN_STOCK)
    ELSE PyStr(CODE_OUT_OF_STOCK)

\* faulty variant: a missing stock record counts as out of stock
StockRequired_code_Tolerant(self) ==
    IF self.stockrecord = "None" THEN PyStr(CODE_OUT_OF_STOCK)
    ELSE IF net_stock_level(self) > 0 THEN PyStr(CODE_IN_STOCK)
    ELSE PyStr(CODE_OUT_OF_STOCK)

StockRequired_code(self) ==
    IF self.stockrecord = "None" THEN AttributeError
    ELSE IF net_stock_level(self) > 0 THEN PyStr(CODE_IN_STOCK)
    ELSE PyStr(CODE_OUT_OF_STOCK)

StockRequired_message(self) ==
    IF self.stockrecord = "None" THEN AttributeError
    ELSE IF net_stock_level(self) > 0
    THEN PyStr("In stock (" \o FormatD(net_stock_level(self)) \o " available)")
    ELSE PyStr("Not available")

---------------------------------------------------------------------------
(* DelegateToStockRecord: every call goes to the stock record.             *)

\* faulty variant: the product class's track_stock is not looked at
DelegateToStockRecord_is_available_to_buy_NoShortCircuit(self) ==
    IF self.stockrecord = "None" THEN PyBool(FALSE)
    ELSE SR_is_available_to_buy(stockrecord)

DelegateToStockRecord_is_available_to_buy(self) ==
    IF self.stockrecord = "None" THEN PyBool(FALSE)
    ELSE IF ~product.track_stock THEN PyBool(TRUE)
    ELSE SR_is_available_to_buy(stockrecord)

DelegateToStockRecord_is_purchase_permitted(self, quantity) ==
    IF self.stockrecord = "None" THEN AttributeError
    ELSE SR_is_purchase_permitted(stockrecord, self.user, quantity, product)

DelegateToStockRecord_code(self) ==
    IF self.stockrecord = "None" THEN AttributeError
    ELSE SR_availability_code(stockrecord)

DelegateToStockRecord_message(self) ==
    IF self.stockrecord = "None" THEN AttributeError
    ELSE SR_availability(stockrecord)

DelegateToStockRecord_lead_time(self) ==
    IF self.stockrecord = "None" THEN AttributeError
    ELSE SR_lead_time(stockrecord)

DelegateToStockRecord_dispatch_date(self) ==
    IF self.stockrecord = "None" THEN AttributeError
    ELSE SR_dispatch_date(stockrecord)

---------------------------------------------------------------------------
(* Attribute lookup: the class's own definition, else the one inherited    *)
(* from Base.                                                              *)

is_purchase_permitted(self, quantity) ==
    CASE self.cls = "Available" -> Available_is_purchase_permitted(self, quantity)
      [] self.cls = "StockRequired" ->
            StockRequired_is_purchase_permitted(self, quantity)
      [] self.cls = "DelegateToStockRecord" ->
            DelegateToStockRecord_is_purchase_permitted(self, quantity)
      [] OTHER -> Base_is_purchase_permitted(self, quantity)

\* faulty variant: a purchase of two items is tested
Base_is_available_to_buy_TwoItems(self) == Item0(is_purchase_permitted(self, 2))

\* We test a purchase of a single item
Base_is_available_to_buy(self) == Item0(is_purchase_permitted(self, 1))

is_available_to_buy(self) ==
    IF self.cls = "DelegateToStockRecord"
    THEN DelegateToStockRecord_is_available_to_buy(self)
    ELSE Base_is_available_to_buy(self)

code(self) ==
    CASE self.cls = "Unavailable" -> Unavailable_code(self)
      [] self.cls = "Available" -> Available_code(self)
      [] self.cls = "StockRequired" -> StockRequired_code(self)
      [] self.cls = "DelegateToStockRecord" -> DelegateToStockRecord_code(self)
      [] OTHER -> Base_code(self)

message(self) ==
    CASE self.cls = "Unavailable" -> Unavailable_message(self)
      [] self.cls = "Available" -> Available_message(self)
      [] self.cls = "StockRequired" -> StockRequired_message(self)
      [] self.cls = "DelegateToStockRecord" -> DelegateToStockRecord_message(self)
      [] OTHER -> Base_message(self)

lead_time(self) ==
    IF self.cls = "DelegateToStockRecord"
    THEN DelegateToStockRecord_lead_time(self)
    ELSE Base_lead_time(self)

dispatch_date(self) ==
    IF self.cls = "DelegateToStockRecord"
    THEN DelegateToStockRecord_dispatch_date(self)
    ELSE Base_dispatch_date(self)

---------------------------------------------------------------------------
(* The state machine.                                                      *)

NoQuery == [op |-> "none", quantity |-> 0, result |-> PyNone]

Query(op, quantity, result) ==
    [op |-> op, quantity |-> quantity, result |-> result]

\* the instances built with the constructors' default arguments:
\* stockrecord=None, user=None
DefaultPolicies ==
    {Plain(c) : c \in PlainClasses}
    \cup {StockRequired_init("None"), DelegateToStockRecord_init("None", "None")}

Init ==
    /\ policy \in DefaultPolicies
    /\ stockrecord \in StockRecords
    /\ product \in Products
    /\ stock_changed = FALSE
    /\ prev = NoQuery
    /\ cur = NoQuery

\* The caller receives the result; nothing else changes.
Returns(q) ==
    /\ prev' = cur
    /\ cur' = q
    /\ UNCHANGED <<policy, stockrecord, product, stock_changed>>

\* A new policy instance replaces the old one.
Construct(p) ==
    /\ policy' = p
    /\ stock_changed' = FALSE
    /\ prev' = NoQuery
    /\ cur' = NoQuery
    /\ UNCHANGED <<stockrecord, product>>

\* The catalogue changes the stock record's level: a sale, a delivery.
SetStockLevel(n) ==
    /\ n # stockrecord.net_stock_level
    /\ stockrecord' = [stockrecord EXCEPT !.net_stock_level = n]
    /\ stock_changed' = TRUE
    /\ prev' = NoQuery
    /\ cur' = NoQuery
    /\ UNCHANGED <<policy, product>>

Call_is_available_to_buy ==
    Returns(Query("is_available_to_buy", 0, is_available_to_buy(policy)))

\* faulty variant: the stock permitted to be bought is allocated
Call_is_purchase_permitted_Allocating(quantity) ==
    LET r == is_purchase_permitted(policy, quantity) IN
    /\ prev' = cur
    /\ cur' = Query("is_purchase_permitted", quantity, r)
    /\ stockrecord' =
          IF r.t = "tuple" /\ r.b /\ quantity > 0
             /\ stockrecord.net_stock_level - quantity \in Levels
          THEN [stockrecord EXCEPT !.net_stock_level = @ - quantity]
          ELSE stockrecord
    /\ UNCHANGED <<policy, product, stock_changed>>

Call_is_purchase_permitted(quantity) ==
    Returns(Query("is_purchase_permitted", quantity,
                  is_purchase_permitted(policy, quantity)))

Call_code == Returns(Query("code", 0, code(policy)))

Call_message == Returns(Query("message", 0, message(policy)))

Call_lead_time == Returns(Query("lead_time", 0, lead_time(policy)))

Call_dispatch_date == Returns(Query("dispatch_date", 0, dispatch_date(policy)))

Next ==
    \/ \E p \in Policies : Construct(p)
    \/ \E n \in Levels : SetStockLevel(n)
    \/ Call_is_available_to_buy
    \/ \E quantity \in Quantities : Call_is_purchase_permitted(quantity)
    \/ Call_code
    \/ Call_message
    \/ Call_lead_time
    \/ Call_dispatch_date

Spec == Init /\ [][Next]_vars


---------------------------------------------------------------------------
(* What the claims speak of.                                               *)

Level == stockrecord.net_stock_level

Attached == policy.stockrecord # "None"

StockRequiredAttached == policy.cls = "StockRequired" /\ Attached

\* the decimal numerals, written out
Numerals ==
    <<"1", "2", "3", "4", "5", "6", "7", "8", "9", "10", "11", "12", "13",
      "14", "15", "16", "17", "18", "19">>

Decimal(n) == IF n = 0 THEN "0" ELSE Numerals[n]

Permitted == PyPair(TRUE, "")

\* q and r are the same question (one answered by a, the other by b), or
\* the other way round
Asked(a, b) ==
    \/ prev.op = a /\ cur.op = b
    \/ prev.op = b /\ cur.op = a

Answer(op) == IF cur.op = op THEN cur ELSE prev

---------------------------------------------------------------------------
\* C1: StockRequired.is_purchase_permitted(quantity), for a stock level
\* N >= 0 and a quantity >= 1, returns (False, "No stock available") when
\* N = 0, (False, "A maximum of N can be bought") when quantity > N, and
\* (True, "") otherwise: a quantity equal to the stock level is permitted.
C1_StockRequiredPermission ==
    (/\ StockRequiredAttached
     /\ cur.op = "is_purchase_permitted"
     /\ cur.quantity >= 1
     /\ Level >= 0)
    => /\ Level = 0 => cur.result = PyPair(FALSE, "No stock available")
       /\ (Level # 0 /\ cur.quantity > Level) =>
             cur.result = PyPair(FALSE, "A maximum of " \o Decimal(Level)
                                           \o " can be bought")
       /\ (Level # 0 /\ cur.quantity <= Level) => cur.result = Permitted
       /\ (Level = 5 /\ cur.quantity = 6) =>
             cur.result = PyPair(FALSE, "A maximum of 5 can be bought")
       /\ (Level = BulkStock /\ cur.quantity = BulkStock + 1) =>
             cur.result.s = "A maximum of " \o Decimal(BulkStock)
                               \o " can be bought"

\* one more than the stock was refused, then the whole stock was permitted
C1_Witness ==
    /\ StockRequiredAttached
    /\ Level >= 1
    /\ prev.op = "is_purchase_permitted" /\ prev.quantity = Level + 1
    /\ prev.result.t = "tuple" /\ ~prev.result.b
    /\ cur.op = "is_purchase_permitted" /\ cur.quantity = Level
    /\ cur.result = Permitted

\* C2, as claimed: for every policy class, is_available_to_buy equals the
\* boolean component of is_purchase_permitted(1).
C2_AvailableIsSingleItemPermitted ==
    (/\ Asked("is_available_to_buy", "is_purchase_permitted")
     /\ Answer("is_purchase_permitted").quantity = 1)
    => Answer("is_available_to_buy").result
          = Item0(Answer("is_purchase_permitted").result)

\* C2, amended: for Base, Unavailable, Available and StockRequired,
\* is_available_to_buy equals the boolean component of
\* is_purchase_permitted(1), and fails as it fails when StockRequired has no
\* stock record.  DelegateToStockRecord answers is_available_to_buy by
\* itself.
C2_DerivedAvailableIsSingleItemPermitted ==
    (/\ policy.cls # "DelegateToStockRecord"
     /\ Asked("is_available_to_buy", "is_purchase_permitted")
     /\ Answer("is_purchase_permitted").quantity = 1)
    => Answer("is_available_to_buy").result
          = Item0(Answer("is_purchase_permitted").result)

C2_Witness ==
    /\ StockRequiredAttached
    /\ Level = 1
    /\ prev.op = "is_available_to_buy" /\ prev.result = PyBool(TRUE)
    /\ cur.op = "is_purchase_permitted" /\ cur.quantity = 1
    /\ cur.result = Permitted

\* C3: DelegateToStockRecord.is_available_to_buy is False when no stock
\* record is attached; else True when the product's class does not track
\* stock; else the stock record's own is_available_to_buy.
C3_DelegateAvailability ==
    (policy.cls = "DelegateToStockRecord" /\ cur.op = "is_available_to_buy")
    => /\ ~Attached => cur.result = PyBool(FALSE)
       /\ (Attached /\ ~product.track_stock) => cur.result = PyBool(TRUE)
       /\ (Attached /\ product.track_stock) =>
             cur.result = SR_is_available_to_buy(stockrecord)

\* stock is not tracked, and the stock record itself would say no
C3_Witness ==
    /\ policy.cls = "DelegateToStockRecord"
    /\ Attached
    /\ ~product.track_stock
    /\ SR_is_available_to_buy(stockrecord) = PyBool(FALSE)
    /\ cur.op = "is_available_to_buy"
    /\ cur.result = PyBool(TRUE)

\* C4: StockRequired.code and message are computed from the stock record's
\* level when they are read: whatever the level was changed to, code is
\* "instock" if the level is > 0 and "outofstock" if it is 0, and message
\* reports the level.
C4_CodeAndMessageReadCurrentLevel ==
    (StockRequiredAttached /\ Level >= 0)
    => /\ cur.op = "code" =>
             cur.result = PyStr(IF Level > 0 THEN "instock" ELSE "outofstock")
       /\ (cur.op = "message" /\ Level > 0) =>
             cur.result = PyStr("In stock (" \o Decimal(Level) \o " available)")
       /\ (cur.op = "message" /\ Level = 0) =>
             cur.result = PyStr("Not available")

\* the stock ran out after the policy was built, and the policy says so
C4_Witness ==
    /\ StockRequiredAttached
    /\ stock_changed
    /\ Level = 0
    /\ prev.op = "code" /\ prev.result = PyStr("outofstock")
    /\ cur.op = "message" /\ cur.result = PyStr("Not available")

\* C5: Available.is_purchase_permitted(n) is (True, "") for every n >= 1,
\* whatever the stock level, and Available.is_available_to_buy is True.
C5_AvailableAlwaysPermits ==
    policy.cls = "Available"
    => /\ (cur.op = "is_purchase_permitted" /\ cur.quantity >= 1) =>
             cur.result = Permitted
       /\ cur.op = "is_available_to_buy" => cur.result = PyBool(TRUE)

\* nothing in stock, and more than one asked for
C5_Witness ==
    /\ policy.cls = "Available"
    /\ Level = 0
    /\ prev.op = "is_available_to_buy" /\ prev.result = PyBool(TRUE)
    /\ cur.op = "is_purchase_permitted" /\ cur.quantity = MaxQty
    /\ cur.result = Permitted

\* C6: Base and Unavailable deny every purchase: is_purchase_permitted is
\* (False, "Unavailable") for every quantity and is_available_to_buy is
\* False.
C6_BaseAndUnavailableDeny ==
    policy.cls \in {"Base", "Unavailable"}
    => /\ cur.op = "is_purchase_permitted" =>
             cur.result = PyPair(FALSE, "Unavailable")
       /\ cur.op = "is_available_to_buy" => cur.result = PyBool(FALSE)

C6_Witness ==
    /\ policy.cls = "Unavailable"
    /\ Level > 0
    /\ prev.op = "is_purchase_permitted" /\ prev.quantity = 1
    /\ prev.result = PyPair(FALSE, "Unavailable")
    /\ cur.op = "is_available_to_buy" /\ cur.result = PyBool(FALSE)

\* the queries that read the stock record
NeedsStockRecord(cls) ==
    CASE cls = "StockRequired" -> {"is_purchase_permitted", "code", "message"}
      [] cls = "DelegateToStockRecord" ->
            {"is_purchase_permitted", "code", "message", "lead_time",
             "dispatch_date"}
      [] OTHER -> {}

\* C7: for a StockRequired or DelegateToStockRecord policy built with no
\* stock record, every query that needs the stock record
\* (is_purchase_permitted, code, message, and the delegate's lead_time and
\* dispatch_date) fails with a null-reference error and returns nothing.
C7_MissingStockRecordFails ==
    (~Attached /\ cur.op \in NeedsStockRecord(policy.cls))
    => cur.result = AttributeError

C7_Witness ==
    /\ policy.cls = "DelegateToStockRecord"
    /\ ~Attached
    /\ prev.op = "code" /\ Raised(prev.result)
    /\ cur.op = "lead_time" /\ Raised(cur.result)

SameQuestion(q, r) == q.op = r.op /\ q.quantity = r.quantity

\* C8: every query on every policy class is read-only: it leaves the stock
\* record, the product and the policy's fields unchanged, so a query asked
\* again with no stock change in between returns what it returned before.
C8_QueriesAreReadOnly ==
    [][cur'.op # "none" =>
         /\ UNCHANGED <<policy, stockrecord, product>>
         /\ SameQuestion(cur', cur) => cur'.result = cur.result
         /\ SameQuestion(cur', prev) => cur'.result = prev.result]_vars

\* the same purchase was asked of a stock-tracking policy twice
C8_Witness ==
    /\ StockRequiredAttached
    /\ Level = 2
    /\ prev.op = "is_purchase_permitted" /\ prev.quantity = 2
    /\ cur = prev
    /\ cur.result = Permitted

\* C9: for StockRequired and every integer stock level, negative ones too,
\* code is "instock" exactly when is_available_to_buy is True and
\* "outofstock" exactly when it is False.
C9_CodeAgreesWithAvailability ==
    (StockRequiredAttached /\ Asked("code", "is_available_to_buy"))
    => /\ Answer("code").result = PyStr("instock")
             <=> Answer("is_available_to_buy").result = PyBool(TRUE)
       /\ Answer("code").result = PyStr("outofstock")
             <=> Answer("is_available_to_buy").result = PyBool(FALSE)

\* more is allocated than is in stock
C9_Witness ==
    /\ StockRequiredAttached
    /\ Level < 0
    /\ prev.op = "is_available_to_buy" /\ prev.result = PyBool(FALSE)
    /\ cur.op = "code" /\ cur.result = PyStr("outofstock")

\* C10: for a fixed stock level StockRequired.is_purchase_permitted is
\* monotone in the quantity: if q is permitted so is every q' <= q, and if
\* q is refused so is every q' >= q.
C10_PermissionMonotone ==
    (/\ StockRequiredAttached
     /\ prev.op = "is_purchase_permitted"
     /\ cur.op = "is_purchase_permitted")
    => /\ (prev.quantity <= cur.quantity /\ cur.result.b) => prev.result.b
       /\ (cur.quantity <= prev.quantity /\ prev.result.b) => cur.result.b
       /\ (prev.quantity <= cur.quantity /\ ~prev.result.b) => ~cur.result.b
       /\ (cur.quantity <= prev.quantity /\ ~cur.result.b) => ~prev.result.b

\* a permitted quantity, then a larger one that is refused
C10_Witness ==
    /\ StockRequiredAttached
    /\ Level = 2
    /\ prev.op = "is_purchase_permitted" /\ prev.quantity = 1
    /\ prev.result.b
    /\ cur.op = "is_purchase_permitted" /\ cur.quantity = 3
    /\ ~cur.result.b


=============================================================================
